---- MODULE Spec2Model ----
(***************************************************************************)
(* State-machine model of youtube_whisper_text.py: the Tk application      *)
(* (App), its pipeline worker thread (App._pipeline_thread), the stage     *)
(* functions (download_youtube, to_mp4, mp4_to_wav, run_whisper) and the   *)
(* process runner (run_cmd_stream).                                        *)
(*                                                                         *)
(* Python strings are sequences of one-character strings, so that strip,   *)
(* startswith, endswith, lower, splitext, basename, join and sorted are    *)
(* computed character by character as the code computes them.  The file    *)
(* system is the set of path strings that are regular files (files) and    *)
(* the set that are directories (dirs).  External tools are opaque: each   *)
(* run of a tool ends with a nondeterministic exit code, output and set of *)
(* files written.                                                          *)
(*                                                                         *)
(* What the machine may refuse: an append to the log file (swallowed by    *)
(* Logger._write_file), the making of the work directories (os.makedirs    *)
(* raises), the start of a tool (subprocess.Popen raises: the engine check *)
(* runs in WHISPER_PROJECT_DIR, which the program never tests for) and the *)
(* removal of the wav.  Of what the tools print, the downloader's lines    *)
(* are kept, which the program reads; of the other tools' lines only that  *)
(* they are logged.                                                        *)
(***************************************************************************)
EXTENDS Integers, Sequences, FiniteSets, TLC

\* ------------------------------------------------------------------ bounds
\* Number of pipeline runs (accepted starts) explored.
MaxRuns == 2

\* Number of pipeline runs explored when termination is checked.
MaxLiveRuns == 1

\* Number of output lines of the downloader explored when download_youtube is
\* taken alone.
MaxOutLines == 2

\* --------------------------------------------------------- string literals
SEP == <<"/">>
DOT == <<".">>
S_video == <<"v","i","d","e","o">>
S_mp4 == <<"m","p","4">>
S_txt == <<"t","x","t">>
S_wav == <<"w","a","v">>
Ext_mp4 == DOT \o S_mp4
Ext_wav == DOT \o S_wav
Ext_txt == DOT \o S_txt
S_http == <<"h","t","t","p",":","/","/">>
S_https == <<"h","t","t","p","s",":","/","/">>
S_logname ==
  <<"w","h","i","s","p","e","r","_","y","o","u","t","u","b","e","_","l","o","g",
    ".","t","x","t">>
\* f"%(title).80s_%(id)s_{date_tag}" without the date tag
S_template ==
  <<"%","(","t","i","t","l","e",")",".","8","0","s","_","%","(","i","d",")","s","_">>

\* ------------------------------------------------------ Python string ops
\* Code points of the characters the model's strings are made of.
Ord(c) ==
  CASE c = " " -> 32 [] c = "%" -> 37 [] c = "(" -> 40 [] c = ")" -> 41
    [] c = "-" -> 45 [] c = "." -> 46 [] c = "/" -> 47
    [] c = "0" -> 48 [] c = "1" -> 49 [] c = "2" -> 50 [] c = "3" -> 51
    [] c = "4" -> 52 [] c = "6" -> 54 [] c = "8" -> 56 [] c = ":" -> 58
    [] c = "C" -> 67 [] c = "E" -> 69 [] c = "R" -> 82 [] c = "T" -> 84
    [] c = "W" -> 87 [] c = "X" -> 88 [] c = "_" -> 95
    [] c = "a" -> 97 [] c = "b" -> 98 [] c = "d" -> 100 [] c = "e" -> 101
    [] c = "f" -> 102 [] c = "h" -> 104 [] c = "i" -> 105 [] c = "k" -> 107
    [] c = "l" -> 108 [] c = "m" -> 109 [] c = "o" -> 111 [] c = "p" -> 112
    [] c = "r" -> 114 [] c = "s" -> 115 [] c = "t" -> 116 [] c = "u" -> 117
    [] c = "v" -> 118 [] c = "w" -> 119 [] c = "x" -> 120 [] c = "y" -> 121

IsSpace(c) == c = " "

\* str.lower(), one character
LowerChar(c) ==
  CASE c = "C" -> "c" [] c = "E" -> "e" [] c = "R" -> "r" [] c = "T" -> "t"
    [] c = "W" -> "w" [] c = "X" -> "x" [] OTHER -> c

Lower(s) == [i \in 1..Len(s) |-> LowerChar(s[i])]

StartsWith(s, p) == Len(p) <= Len(s) /\ SubSeq(s, 1, Len(p)) = p

EndsWith(s, p) == Len(p) <= Len(s) /\ SubSeq(s, Len(s) - Len(p) + 1, Len(s)) = p

\* str.strip(): drop leading and trailing whitespace
Strip(s) ==
  LET keep == {i \in 1..Len(s) : ~IsSpace(s[i])}
  IN  IF keep = {} THEN <<>>
      ELSE LET lo == CHOOSE i \in keep : \A j \in keep : i <= j
               hi == CHOOSE i \in keep : \A j \in keep : j <= i
           IN  SubSeq(s, lo, hi)

\* position of the last occurrence of character c in s, 0 if none (rfind + 1)
RFind(s, c) ==
  LET hits == {i \in 1..Len(s) : s[i] = c}
  IN  IF hits = {} THEN 0 ELSE CHOOSE i \in hits : \A j \in hits : j <= i

\* os.path.join(a, b) for a non-empty a without trailing separator and a
\* relative b
Join(a, b) == a \o SEP \o b

\* os.path.basename(p)
Basename(p) == SubSeq(p, RFind(p, "/") + 1, Len(p))

\* os.path.dirname(p)
Dirname(p) == SubSeq(p, 1, RFind(p, "/") - 1)

\* os.path.splitext(name)[0]: cut at the last dot unless only dots precede it
\* in the last path component
SplitextRoot(p) ==
  LET sepIndex == RFind(p, "/")
      dotIndex == RFind(p, ".")
  IN  IF dotIndex > sepIndex
         /\ \E k \in (sepIndex + 1)..(dotIndex - 1) : p[k] # "."
      THEN SubSeq(p, 1, dotIndex - 1)
      ELSE p

\* a < b in Python's string order (code points, shorter prefix first)
StrLess(a, b) ==
  \/ Len(a) < Len(b) /\ SubSeq(b, 1, Len(a)) = a
  \/ \E i \in 1..(IF Len(a) < Len(b) THEN Len(a) ELSE Len(b)) :
        /\ SubSeq(a, 1, i - 1) = SubSeq(b, 1, i - 1)
        /\ Ord(a[i]) < Ord(b[i])

\* sorted(S)[0] for a non-empty set of strings
SortedFirst(S) == CHOOSE a \in S : \A b \in S : b = a \/ StrLess(a, b)


\* "\n".join(out_lines)
RECURSIVE JoinLines(_)
JoinLines(ls) ==
  IF ls = <<>> THEN <<>>
  ELSE IF Len(ls) = 1 THEN ls[1]
  ELSE ls[1] \o <<"\n">> \o JoinLines(Tail(ls))

\* str.splitlines() on "\n": the pieces between line breaks, without a final
\* empty piece
RECURSIVE Splitlines(_)
Splitlines(s) ==
  IF s = <<>> THEN <<>>
  ELSE LET nls == {i \in 1..Len(s) : s[i] = "\n"}
       IN  IF nls = {} THEN <<s>>
           ELSE LET k == CHOOSE i \in nls : \A j \in nls : i <= j
                IN  <<SubSeq(s, 1, k - 1)>> \o Splitlines(SubSeq(s, k + 1, Len(s)))

\* [l.strip() for l in lines if l.strip()]
RECURSIVE StripNonBlank(_)
StripNonBlank(ls) ==
  IF ls = <<>> THEN <<>>
  ELSE (IF Strip(ls[1]) = <<>> THEN <<>> ELSE <<Strip(ls[1])>>)
       \o StripNonBlank(Tail(ls))

\* ------------------------------------------------------------ file system
\* os.path.isfile / os.path.isdir
IsFile(p, fs) == p \in fs

IsDir(p, ds) == p \in ds

\* os.listdir(d): the names of the entries directly under d (order unspecified)
Listdir(d, fs, ds) ==
  {SubSeq(p, Len(d) + 2, Len(p)) :
     p \in {q \in fs \cup ds : /\ Len(q) > Len(d) + 1
                               /\ SubSeq(q, 1, Len(d) + 1) = d \o SEP
                               /\ RFind(q, "/") = Len(d) + 1}}

\* os.makedirs(path, exist_ok=True): the path and its missing parents
safe_makedirs(ds, path) ==
  ds \cup {SubSeq(path, 1, k - 1) :
             k \in {j \in 2..(Len(path) + 1) : j = Len(path) + 1 \/ path[j] = "/"}}

\* ------------------------------------------------------------- environment
\* os.getcwd()
Getcwd == <<"C">>

\* a path that names no directory before a run creates it
DirX == <<"X">>

\* datetime.now().strftime("%Y%m%d")
DateTag == <<"2","0","2","6","1","0","3","0">>

\* what the downloader makes of the name template: title T, id i
ExpandedBase == <<"T","_","i","_">> \o DateTag

Ext_mkv == <<".","m","k","v">>

S_partial == <<"-","p","a","r","t","i","a","l">>

\* text fields of the window: what the user can have typed
UrlInputs == {<<>>, S_http \o <<"u">>}

WorkdirInputs == {DirX}

\* the user empties the output entry
OutputInputs == {<<>>}

\* filedialog.askdirectory(): a directory, or "" when cancelled
DialogResults == {<<>>, Getcwd}

\* files that may lie in the work directories before the first run
PreFiles ==
  { Join(Getcwd, ExpandedBase \o S_partial \o Ext_txt),
    Join(Getcwd, ExpandedBase \o <<".","T","X","T">>) }

\* -------------------------------------------------------------- the stages
\* mutant: the exit status is not looked at
RunCmdNeverRaises(rc) == FALSE

\* run_cmd_stream: a non-zero exit status raises
RunCmdRaises(rc) == rc # 0

\* base_template = f"%(title).80s_%(id)s_{date_tag}"
BaseTemplate(date_tag) == S_template \o date_tag

\* mutant: the printed path is returned without looking for the file
DownloadYoutubeUnchecked(out, video_dir, base_with_date, fs, ds) ==
  LET lines == StripNonBlank(Splitlines(out))
      downloaded == IF lines # <<>> THEN lines[Len(lines)] ELSE <<>>
  IN  IF downloaded # <<>>
      THEN {downloaded}
      ELSE {Join(video_dir, fn) :
              fn \in {f \in Listdir(video_dir, fs, ds) :
                        /\ StartsWith(f, base_with_date \o DOT)
                        /\ IsFile(Join(video_dir, f), fs)}}

\* download_youtube after the downloader exited 0: the paths it may return
\* (one per listing order of video_dir); the empty set when it raises
DownloadYoutube(out, video_dir, base_with_date, fs, ds) ==
  LET lines == StripNonBlank(Splitlines(out))
      downloaded == IF lines # <<>> THEN lines[Len(lines)] ELSE <<>>
  IN  IF downloaded # <<>> /\ IsFile(downloaded, fs)
      THEN {downloaded}
      ELSE {Join(video_dir, fn) :
              fn \in {f \in Listdir(video_dir, fs, ds) :
                        /\ StartsWith(f, base_with_date \o DOT)
                        /\ IsFile(Join(video_dir, f), fs)}}

\* mutant: to_mp4 without the return after the first command
ToMp4AlwaysFallback(rc1) == TRUE

\* to_mp4: the second command runs when the first one raised
ToMp4Fallback(rc1) == RunCmdRaises(rc1)

\* mutant: the mp4 is not looked for after to_mp4
Mp4NotChecked(mp4_path, fs) == TRUE

\* the checks of the pipeline between the stages
Mp4Found(mp4_path, fs) == IsFile(mp4_path, fs)

WavFound(wav_path, fs) == IsFile(wav_path, fs)

TxtFound(txt_path, fs) == IsFile(txt_path, fs)

\* the search for the text file when base.txt is missing
ResolveTxt(txt_path, workdir, base, fs, ds) ==
  IF ~IsFile(txt_path, fs)
  THEN LET cands == {f \in Listdir(workdir, fs, ds) :
                       EndsWith(Lower(f), Ext_txt) /\ StartsWith(f, base)}
       IN  IF cands # {} THEN Join(workdir, SortedFirst(cands)) ELSE txt_path
  ELSE txt_path

\* os.remove(wav_path) inside try/except: rm_ok is whether the system call
\* succeeds
RemoveWav(fs, wav_path, rm_ok) == IF rm_ok THEN fs \ {wav_path} ELSE fs


\* ------------------------------------------------------------------- state
VARIABLES
  url_var,        \* App.url_var: the URL field
  workdir_var,    \* App.workdir_var: the output-directory field
  output_txt_var, \* App.output_txt_var: the reported text path
  status_var,     \* App.status_var
  btn_run,        \* state of the run button: "normal" or "disabled"
  btn_copy,       \* state of the copy-path button
  logfile_path,   \* Logger.logfile_path (<<>> is None)
  files,          \* the regular files of the file system
  dirs,           \* its directories
  runs,           \* the pipeline worker threads that have not ended yet
  started,        \* how many runs have been accepted so far
  dl,             \* one call of download_youtube taken alone: its inputs,
                  \* and its result once it has returned or raised
  logger,         \* the Logger taken alone: the lines of its log file, its
                  \* queue and the lines shown in the Text widget
  rcs,            \* one call of run_cmd_stream taken alone, with its process
  callers,        \* the threads that call Logger.log side by side
  wcmd,           \* one call of explain_whisper_command taken alone
  last_outcome,   \* the Outcome of the most recently accepted run: "none"
                  \* before the first, "running" until it is decided
  clipboard       \* the Tk clipboard: what copy_txt put there last

vars ==
  <<url_var, workdir_var, output_txt_var, status_var, btn_run, btn_copy,
    logfile_path, files, dirs, runs, started, dl, logger, rcs, callers, wcmd,
    last_outcome, clipboard>>

\* one entry of a worker's record of what it did: a line it logged, a process
\* it launched (Popen) or a process it waited for (p.wait() returned rc)
Ev(kind, what, rc) == [ev |-> kind, what |-> what, rc |-> rc]

\* run_cmd_stream up to Popen
Launched(trace, tool) == Append(trace, Ev("launch", tool, 0))

\* mutant: run_cmd_stream returns without waiting for the process
NotWaited(trace, tool, rc) == trace

\* run_cmd_stream: rc = p.wait()
Waited(trace, tool, rc) == Append(trace, Ev("exit", tool, rc))

\* run_cmd_stream: subprocess.Popen raised, no process was started
PopenRaised(trace, tool) == Append(trace, Ev("popen-raised", tool, 0))

\* logger.log(line) of a stage banner or milestone
Logged(trace, line) == Append(trace, Ev("log", line, 0))

\* the stage banners of _pipeline_thread
BannerCheck == "[0/4]"

BannerFetch == "[1/4]"

BannerNormalize == "[2/4]"

BannerExtract == "[3/4]"

BannerTranscribe == "[4/4]"

\* the stage a message of the pipeline names in its text ("Telechargement
\* termine, mais ...", "Conversion MP4 terminee, mais ...", "Extraction WAV
\* terminee, mais ...", "Transcription terminee, mais ...")
StageNamed(msg) ==
  CASE msg = "fichier video introuvable" -> "Fetch"
    [] msg = "fichier MP4 introuvable" -> "Normalize"
    [] msg = "WAV introuvable" -> "ExtractAudio"
    [] msg = "TXT introuvable" -> "Transcribe"
    [] OTHER -> ""

\* str(e) of the exception that ended a run: the message, the exit status it
\* names (run_cmd_stream's RuntimeError), the command line it names and the
\* stage it names ("" when it names none)
NoError == [msg |-> "", code |-> 0, cmd |-> "", stage |-> ""]

\* RuntimeError(f"Commande echouee (code {rc}).")
CmdError(rc) ==
  [msg |-> "Commande echouee (code rc).", code |-> rc, cmd |-> "", stage |-> ""]

\* RuntimeError(msg) of a missing output file
OtherError(msg) == [msg |-> msg, code |-> 0, cmd |-> "", stage |-> StageNamed(msg)]

\* an OSError raised by os.makedirs or subprocess.Popen: its text is
\* "[Errno n] <reason>: '<path>'", which names no stage and no command
OsError(call) == [msg |-> call, code |-> 0, cmd |-> "", stage |-> ""]

\* exit statuses a tool may end with
ExitCodes == {0, 1}

\* a thread object before its first statement
NewThread ==
  [pc |-> "start", url |-> <<>>, workdir |-> <<>>, video_dir |-> <<>>,
   mp4_dir |-> <<>>, txt_dir |-> <<>>, downloaded_path |-> <<>>,
   base |-> <<>>, mp4_path |-> <<>>, wav_path |-> <<>>, txt_path |-> <<>>,
   out_lines |-> <<>>, outcome |-> "none", error |-> NoError, trace |-> <<>>]

\* the positions at which a worker waits for an external process
ProcessPcs ==
  {"CheckingEngine", "Fetching", "Normalizing", "NormalizingFallback",
   "ExtractingAudio", "Transcribing"}

\* no call of download_youtube is being looked at
NoCall ==
  [state |-> "none", rc |-> 0, out_lines |-> <<>>, fs |-> {}, ds |-> {},
   ret |-> <<>>, error |-> NoError]

\* Logger.__init__: no line written, queued or shown yet
NoLogger == [file |-> <<>>, q |-> <<>>, text |-> <<>>]

\* no call of run_cmd_stream is being looked at
NoRun ==
  [pc |-> "none", output |-> <<>>, stream |-> <<>>, pipe |-> <<>>,
   exited |-> FALSE, rc |-> 0, out_lines |-> <<>>, ret |-> <<>>, error |-> NoError]

\* no thread is calling Logger.log
NoCallers == <<>>

\* no call of explain_whisper_command is being looked at
NoCmd ==
  [state |-> "none", python_exe |-> "", wav_path |-> "", out_dir |-> "",
   model |-> "", lang |-> "", cmd |-> <<>>]

\* App.__init__ and the state of the machine it starts on
Init ==
  /\ url_var = <<>>
  /\ workdir_var = Getcwd
  /\ output_txt_var = <<>>
  /\ status_var = "Pret"
  /\ btn_run = "normal"
  /\ btn_copy = "disabled"
  /\ logfile_path = <<>>
  /\ files \in {{}, PreFiles}
  /\ dirs = {Getcwd}
  /\ runs = <<>>
  /\ started = 0
  /\ dl = NoCall
  /\ logger = NoLogger
  /\ rcs = NoRun
  /\ callers = NoCallers
  /\ wcmd = NoCmd
  /\ last_outcome = "none"
  /\ clipboard = <<>>

\* ----------------------------------------------------------- the UI thread
\* the variables of the function-level specifications, which no action of the
\* application touches
Harness == <<dl, logger, rcs, callers, wcmd>>

\* typing into the URL entry
EditUrl(v) ==
  /\ v # url_var
  /\ url_var' = v
  /\ UNCHANGED <<workdir_var, output_txt_var, status_var, btn_run, btn_copy,
                 logfile_path, files, dirs, runs, started, last_outcome,
                 clipboard, Harness>>

\* typing into the output-directory entry
EditWorkdir(v) ==
  /\ v # workdir_var
  /\ workdir_var' = v
  /\ UNCHANGED <<url_var, output_txt_var, status_var, btn_run, btn_copy,
                 logfile_path, files, dirs, runs, started, last_outcome,
                 clipboard, Harness>>

\* typing into the "Sortie TXT" entry, which is bound to output_txt_var
EditOutput(v) ==
  /\ v # output_txt_var
  /\ output_txt_var' = v
  /\ UNCHANGED <<url_var, workdir_var, status_var, btn_run, btn_copy,
                 logfile_path, files, dirs, runs, started, last_outcome,
                 clipboard, Harness>>

\* Logger._write_file: the line is appended to the log file when one is set;
\* ok is whether open(..., "a") and the write succeed, a failure (the path is
\* a directory, the directory is not writable) being swallowed by
\* `except Exception: pass`
WriteFile(fs, path, ok) == IF path # <<>> /\ ok THEN fs \cup {path} ELSE fs

\* the outcomes of an append to the log file that can be told apart: where no
\* file is set, or the file is there already, a failing append changes nothing
LogOutcomes(path) == IF path = <<>> \/ IsFile(path, files) THEN {TRUE} ELSE BOOLEAN

\* App.pick_workdir
pick_workdir(path, log_ok) ==
  /\ path # <<>>
  /\ workdir_var' = path
  /\ files' = WriteFile(files, logfile_path, log_ok)
  /\ UNCHANGED <<url_var, output_txt_var, status_var, btn_run, btn_copy,
                 logfile_path, dirs, runs, started, last_outcome, clipboard,
                 Harness>>

\* App.copy_txt, the command of the copy-path button; a disabled button does
\* not invoke its command.  With a blank output field it does nothing.
copy_txt(log_ok) ==
  /\ btn_copy = "normal"
  /\ LET txt == Strip(output_txt_var)
     IN  IF txt # <<>>
         THEN /\ clipboard' = txt
              /\ status_var' = "Chemin TXT copie"
              /\ files' = WriteFile(files, logfile_path, log_ok)
         ELSE UNCHANGED <<clipboard, status_var, files>>
  /\ UNCHANGED <<url_var, workdir_var, output_txt_var, btn_run, btn_copy,
                 logfile_path, dirs, runs, started, last_outcome, Harness>>

\* mutant: only the empty URL is refused
ValidUrlNonEmpty(url) == url # <<>>

\* start_pipeline: the URL test
ValidUrl(url) ==
  url # <<>> /\ (StartsWith(url, S_http) \/ StartsWith(url, S_https))

\* mutant: the run button is left enabled
BtnRunLeftEnabled == "normal"

\* start_pipeline: the state the run button is put in when a run is accepted
BtnRunOnStart == "disabled"

\* mutant: the copy button is left as it was
BtnCopyLeftEnabled == "normal"

\* start_pipeline: self.btn_copy.configure(state="disabled")
BtnCopyOnStart == "disabled"

\* start_pipeline: a refusal sets the status line, logs one line and returns
Refused(status, log_ok) ==
  /\ status_var' = status
  /\ files' = WriteFile(files, logfile_path, log_ok)
  /\ UNCHANGED <<url_var, workdir_var, output_txt_var, btn_run, btn_copy,
                 logfile_path, dirs, runs, started, last_outcome, clipboard,
                 Harness>>

\* App.start_pipeline, the command of the run button; a disabled button does
\* not invoke its command.  yt_ok and ff_ok are which_ok(YTDLP_BIN) and
\* which_ok(FFMPEG_BIN).
start_pipeline(yt_ok, ff_ok, log_ok) ==
  /\ btn_run = "normal"
  /\ started < MaxRuns
  /\ LET url == Strip(url_var)
         workdir == IF Strip(workdir_var) # <<>> THEN Strip(workdir_var) ELSE Getcwd
         log_path == Join(workdir, S_logname)
     IN  IF ~ValidUrl(url)
         THEN Refused("Erreur: URL invalide", log_ok)
         ELSE IF ~yt_ok
         THEN Refused("Erreur: yt-dlp introuvable", log_ok)
         ELSE IF ~ff_ok
         THEN Refused("Erreur: ffmpeg introuvable", log_ok)
         ELSE IF ~IsDir(workdir, dirs)
         THEN Refused("Erreur: dossier de sortie invalide", log_ok)
         ELSE /\ logfile_path' = log_path
              /\ btn_run' = BtnRunOnStart
              /\ btn_copy' = BtnCopyOnStart
              /\ output_txt_var' = <<>>
              /\ status_var' = "En cours"
              /\ files' = WriteFile(files, log_path, log_ok)
              /\ runs' = Append(runs, NewThread)
              /\ started' = started + 1
              /\ last_outcome' = "running"
              /\ UNCHANGED <<url_var, workdir_var, dirs, clipboard, Harness>>

\* ------------------------------------------------------- the worker thread
\* The worker's calls on Tk variables and widgets (get, set, configure) are
\* carried out by the main loop of the UI thread, one at a time, between two
\* callbacks of the window: the callbacks can run between any two of them.
\* The worker's steps are cut where that shows.  Between the other statements
\* of the worker the callbacks change nothing the worker reads.

\* the variables of the UI thread alone
Fields == <<url_var, workdir_var, clipboard>>

\* a statement of the try block raises e: the worker enters the except
\* clause, whose first statement (line 444) is a Tk call and waits for the
\* main loop
Raised(r, e) == [r EXCEPT !.pc = "except", !.error = e]

\* worker i has run the statements of a step of the try block and is now r;
\* none of them touches the status line
Continue(i, r) ==
  /\ runs' = [runs EXCEPT ![i] = r]
  /\ UNCHANGED <<status_var, last_outcome>>

\* run_cmd_stream, lines 83-92: subprocess.Popen starts the tool and the
\* worker waits for it at position pc, or Popen raises (popen_ok is FALSE: the
\* program is gone or may not be run, the working directory is missing, the
\* system has no process or descriptor left) and the exception leaves
\* run_cmd_stream
Launch(r, pc, tool, popen_ok) ==
  IF popen_ok
  THEN [r EXCEPT !.pc = pc, !.trace = Launched(@, tool)]
  ELSE Raised([r EXCEPT !.trace = PopenRaised(@, tool)], OsError("Popen"))

\* to_mp4 up to the first Popen that succeeds: `except Exception` (line 171)
\* catches whatever the first run_cmd_stream raises, a Popen that could not
\* start the stream copy included, logs the fallback notice and runs the
\* re-encode command, whose exceptions nothing in to_mp4 catches
LaunchToMp4(r, copy_ok, x264_ok) ==
  IF copy_ok
  THEN [r EXCEPT !.pc = "Normalizing", !.trace = Launched(@, "ffmpeg-copy")]
  ELSE Launch([r EXCEPT !.trace = Logged(PopenRaised(@, "ffmpeg-copy"),
                                         "Fallback")],
              "NormalizingFallback", "ffmpeg-x264", x264_ok)

\* _pipeline_thread, line 358: url = self.url_var.get().strip()
ReadUrl(i) ==
  /\ runs[i].pc = "start"
  /\ runs' = [runs EXCEPT ![i] =
                [@ EXCEPT !.pc = "ReadingWorkdir", !.url = Strip(url_var)]]
  /\ UNCHANGED <<output_txt_var, status_var, btn_run, btn_copy, logfile_path,
                 files, dirs, started, last_outcome, Fields, Harness>>

\* _pipeline_thread from line 361, workdir = self.workdir_var.get().strip(),
\* to the Popen of the engine check.  mk_ok is whether the file system lets
\* the missing directories be made (os.makedirs raises otherwise, at the
\* first of them); popen_ok is whether subprocess.Popen starts the engine
\* check in WHISPER_PROJECT_DIR (it raises when that directory is missing).
Begin(i, mk_ok, popen_ok, log_ok) ==
  /\ runs[i].pc = "ReadingWorkdir"
  /\ LET workdir == IF Strip(workdir_var) # <<>> THEN Strip(workdir_var) ELSE Getcwd
         video_dir == Join(workdir, S_video)
         mp4_dir == Join(workdir, S_mp4)
         txt_dir == Join(workdir, S_txt)
         r == [runs[i] EXCEPT !.workdir = workdir, !.video_dir = video_dir,
                              !.mp4_dir = mp4_dir, !.txt_dir = txt_dir]
     IN  IF ~mk_ok /\ ~IsDir(video_dir, dirs)
         THEN /\ Continue(i, Raised(r, OsError("makedirs")))
              /\ UNCHANGED <<dirs, files>>
         ELSE /\ dirs' = safe_makedirs(safe_makedirs(safe_makedirs(dirs, video_dir),
                                                     mp4_dir), txt_dir)
              /\ files' = WriteFile(files, logfile_path, log_ok)
              /\ Continue(i, Launch([r EXCEPT !.trace = Logged(@, BannerCheck)],
                                    "CheckingEngine", "whisper-check", popen_ok))
  /\ UNCHANGED <<output_txt_var, btn_run, btn_copy, logfile_path, started,
                 Fields, Harness>>

\* run_cmd_stream, lines 95-98, for the tools whose output the program does
\* not read (all but the downloader): the process has printed a line and the
\* worker logs it, while the process runs
Prints(i, log_ok) ==
  /\ runs[i].pc \in ProcessPcs \ {"Fetching"}
  /\ files' = WriteFile(files, logfile_path, log_ok)
  /\ UNCHANGED <<output_txt_var, status_var, btn_run, btn_copy, logfile_path,
                 dirs, runs, started, last_outcome, Fields, Harness>>

\* ensure_whisper_available returns or raises; then the banner of the fetch
\* stage and download_youtube up to its Popen.  In this and the other exits
\* log_ok is whether the lines logged in the step, the last ones the process
\* printed (line 98) and the banners after them, reached the log file.
CheckExit(i, rc, popen_ok, log_ok) ==
  /\ runs[i].pc = "CheckingEngine"
  /\ files' = WriteFile(files, logfile_path, log_ok)
  /\ LET r == [runs[i] EXCEPT !.trace = Waited(@, "whisper-check", rc)]
     IN  Continue(i, IF RunCmdRaises(rc)
                     THEN Raised(r, CmdError(rc))
                     ELSE Launch([r EXCEPT !.trace = Logged(@, BannerFetch)],
                                 "Fetching", "yt-dlp", popen_ok))
  /\ UNCHANGED <<output_txt_var, btn_run, btn_copy, logfile_path, dirs, started,
                 Fields, Harness>>

\* what the downloader prints, line by line, when it prints all it has to say
DownloaderOutput(video_dir) ==
  << <<"E","R","R">>, <<" ">> \o Join(video_dir, ExpandedBase \o Ext_mkv), <<" ">> >>

\* what the downloader may have written when it exits
FetchWrites(video_dir) ==
  { {}, { Join(video_dir, ExpandedBase \o Ext_mkv) } }

\* run_cmd_stream, lines 95-98, for the downloader: it has printed its next
\* line, which the worker keeps in out_lines and logs
FetchPrints(i, log_ok) ==
  /\ runs[i].pc = "Fetching"
  /\ Len(runs[i].out_lines) < Len(DownloaderOutput(runs[i].video_dir))
  /\ runs' = [runs EXCEPT ![i].out_lines =
                Append(@, DownloaderOutput(runs[i].video_dir)[Len(@) + 1])]
  /\ files' = WriteFile(files, logfile_path, log_ok)
  /\ UNCHANGED <<output_txt_var, status_var, btn_run, btn_copy, logfile_path,
                 dirs, started, last_outcome, Fields, Harness>>

\* the downloader exits with a code other than 0: run_cmd_stream raises at
\* line 102, download_youtube passes the exception on.  The lines the
\* downloader printed were logged as they came (FetchPrints).
FetchFails(i, rc, wrote) ==
  /\ runs[i].pc = "Fetching"
  /\ RunCmdRaises(rc)
  /\ wrote \in FetchWrites(runs[i].video_dir)
  /\ files' = files \cup wrote
  /\ Continue(i, Raised([runs[i] EXCEPT !.trace = Waited(@, "yt-dlp", rc),
                                        !.out_lines = <<>>],
                        CmdError(rc)))
  /\ UNCHANGED <<output_txt_var, btn_run, btn_copy, logfile_path, dirs, started,
                 Fields, Harness>>

\* the downloader exits with code 0, lines 100-103: download_youtube looks for
\* the file (lines 137-152) and returns or raises; then lines 395-405 and
\* to_mp4 up to its Popen
FetchExit(i, wrote, copy_ok, x264_ok, log_ok) ==
  /\ runs[i].pc = "Fetching"
  /\ wrote \in FetchWrites(runs[i].video_dir)
  /\ LET r == [runs[i] EXCEPT !.trace = Waited(@, "yt-dlp", 0),
                              !.out_lines = <<>>]
         found == DownloadYoutube(JoinLines(runs[i].out_lines), r.video_dir,
                                  BaseTemplate(DateTag), files \cup wrote, dirs)
     IN  IF found = {}
         THEN /\ Continue(i, Raised(r, OtherError("fichier video introuvable")))
              /\ files' = files \cup wrote
         ELSE \E downloaded_path \in found :
                LET base == SplitextRoot(Basename(downloaded_path))
                IN  /\ files' = WriteFile(files \cup wrote, logfile_path, log_ok)
                    /\ Continue(i, LaunchToMp4(
                         [r EXCEPT !.downloaded_path = downloaded_path,
                                   !.base = base,
                                   !.mp4_path = Join(r.mp4_dir, base \o Ext_mp4),
                                   !.wav_path = Join(r.mp4_dir, base \o Ext_wav),
                                   !.txt_path = Join(r.txt_dir, base \o Ext_txt),
                                   !.trace = Logged(@, BannerNormalize)],
                         copy_ok, x264_ok))
  /\ UNCHANGED <<output_txt_var, btn_run, btn_copy, logfile_path, dirs, started,
                 Fields, Harness>>

\* lines 406-410: the check after to_mp4, the banner of the extraction stage
\* and mp4_to_wav up to its Popen
AfterToMp4(r, fs, popen_ok) ==
  IF Mp4Found(r.mp4_path, fs)
  THEN Launch([r EXCEPT !.trace = Logged(@, BannerExtract)],
              "ExtractingAudio", "ffmpeg-wav", popen_ok)
  ELSE Raised(r, OtherError("fichier MP4 introuvable"))

\* the first transcoder command (stream copy) exits
NormalizeExit(i, rc, wrote, popen_ok, log_ok) ==
  /\ runs[i].pc = "Normalizing"
  /\ wrote \in {{}, {runs[i].mp4_path}}
  /\ files' = WriteFile(files \cup wrote, logfile_path, log_ok)
  /\ LET r == [runs[i] EXCEPT !.trace = Waited(@, "ffmpeg-copy", rc)]
     IN  Continue(i, IF ToMp4Fallback(rc)
                     THEN Launch([r EXCEPT !.trace = Logged(@, "Fallback")],
                                 "NormalizingFallback", "ffmpeg-x264", popen_ok)
                     ELSE AfterToMp4(r, files \cup wrote, popen_ok))
  /\ UNCHANGED <<output_txt_var, btn_run, btn_copy, logfile_path, dirs, started,
                 Fields, Harness>>

\* the second transcoder command (re-encode) exits
FallbackExit(i, rc, wrote, popen_ok, log_ok) ==
  /\ runs[i].pc = "NormalizingFallback"
  /\ wrote \in {{}, {runs[i].mp4_path}}
  /\ files' = WriteFile(files \cup wrote, logfile_path, log_ok)
  /\ LET r == [runs[i] EXCEPT !.trace = Waited(@, "ffmpeg-x264", rc)]
     IN  Continue(i, IF RunCmdRaises(rc)
                     THEN Raised(r, CmdError(rc))
                     ELSE AfterToMp4(r, files \cup wrote, popen_ok))
  /\ UNCHANGED <<output_txt_var, btn_run, btn_copy, logfile_path, dirs, started,
                 Fields, Harness>>

\* the audio extraction exits: lines 411-416 up to the Popen of the recognizer
ExtractExit(i, rc, wrote, popen_ok, log_ok) ==
  /\ runs[i].pc = "ExtractingAudio"
  /\ wrote \in {{}, {runs[i].wav_path}}
  /\ files' = WriteFile(files \cup wrote, logfile_path, log_ok)
  /\ LET r == [runs[i] EXCEPT !.trace = Waited(@, "ffmpeg-wav", rc)]
     IN  Continue(i, IF RunCmdRaises(rc)
                     THEN Raised(r, CmdError(rc))
                     ELSE IF WavFound(r.wav_path, files \cup wrote)
                     THEN Launch([r EXCEPT !.trace = Logged(@, BannerTranscribe)],
                                 "Transcribing", "whisper", popen_ok)
                     ELSE Raised(r, OtherError("WAV introuvable")))
  /\ UNCHANGED <<output_txt_var, btn_run, btn_copy, logfile_path, dirs, started,
                 Fields, Harness>>

\* what the recognizer may have written into its output directory
WhisperWrites(r) ==
  { {},
    { Join(r.txt_dir, r.base \o Ext_txt) },
    { Join(r.txt_dir, r.base \o S_partial \o Ext_txt) } }

\* the recognizer exits: lines 418-432, up to the Tk call the worker makes
\* next, line 433 when the text file is there and line 444 when something
\* raised
TranscribeExit(i, rc, wrote, rm_ok, log_ok) ==
  /\ runs[i].pc = "Transcribing"
  /\ wrote \in WhisperWrites(runs[i])
  /\ LET r == [runs[i] EXCEPT !.trace = Waited(@, "whisper", rc)]
         written == files \cup wrote
     IN  IF RunCmdRaises(rc)
         THEN /\ files' = WriteFile(written, logfile_path, log_ok)
              /\ Continue(i, Raised(r, CmdError(rc)))
         ELSE LET txt_path == ResolveTxt(r.txt_path, r.workdir, r.base, written, dirs)
                  removed == rm_ok /\ IsFile(r.wav_path, written)
                  left == RemoveWav(written, r.wav_path, removed)
                  r2 == [r EXCEPT !.txt_path = txt_path,
                                  !.trace = IF removed THEN Logged(@, "WAV supprime")
                                            ELSE @]
              IN  /\ files' = WriteFile(left, logfile_path, log_ok)
                  /\ Continue(i, IF TxtFound(txt_path, left)
                                 THEN [r2 EXCEPT !.pc = "SettingOutput"]
                                 ELSE Raised(r2, OtherError("TXT introuvable")))
  /\ UNCHANGED <<output_txt_var, btn_run, btn_copy, logfile_path, dirs, started,
                 Fields, Harness>>

\* line 433: self.output_txt_var.set(txt_path).  The run has passed its last
\* check and reports its text file: its Outcome is Succeeded from here.
SetOutput(i) ==
  /\ runs[i].pc = "SettingOutput"
  /\ output_txt_var' = runs[i].txt_path
  /\ last_outcome' = "Succeeded"
  /\ runs' = [runs EXCEPT ![i] =
                [@ EXCEPT !.pc = "EnablingCopy", !.outcome = "Succeeded"]]
  /\ UNCHANGED <<status_var, btn_run, btn_copy, logfile_path, files, dirs,
                 started, Fields, Harness>>

\* line 434: self.btn_copy.configure(state="normal")
EnableCopy(i) ==
  /\ runs[i].pc = "EnablingCopy"
  /\ btn_copy' = "normal"
  /\ runs' = [runs EXCEPT ![i].pc = "Reporting"]
  /\ UNCHANGED <<output_txt_var, status_var, btn_run, logfile_path, files, dirs,
                 started, last_outcome, Fields, Harness>>

\* lines 435-439: the status line, the terminal banner and the three paths
ReportSuccess(i, log_ok) ==
  /\ runs[i].pc = "Reporting"
  /\ status_var' = "Termine"
  /\ runs' = [runs EXCEPT ![i] =
                [@ EXCEPT !.pc = "finally",
                          !.trace = Logged(@, "=== Termine ===")]]
  /\ files' = WriteFile(files, logfile_path, log_ok)
  /\ UNCHANGED <<output_txt_var, btn_run, btn_copy, logfile_path, dirs, started,
                 last_outcome, Fields, Harness>>

\* lines 444-446 of the except clause: the status line, the error banner and
\* str(e).  The run's Outcome is Failed from here.
Except(i, log_ok) ==
  /\ runs[i].pc = "except"
  /\ status_var' = "Erreur (voir log)"
  /\ last_outcome' = "Failed"
  /\ runs' = [runs EXCEPT ![i] =
                [@ EXCEPT !.pc = "finally", !.outcome = "Failed",
                          !.trace = Logged(@, "=== Erreur ===")]]
  /\ files' = WriteFile(files, logfile_path, log_ok)
  /\ UNCHANGED <<output_txt_var, btn_run, btn_copy, logfile_path, dirs, started,
                 Fields, Harness>>

\* mutant: the finally clause does not touch the run button
BtnRunLeftDisabled == "disabled"

\* finally: self.btn_run.configure(state="normal")
BtnRunOnFinally == "normal"

\* a thread whose _pipeline_thread has returned: its locals are gone, the
\* thread itself is still alive.  Of what it did, how it ended is kept: the
\* outcome and the terminal banner it logged.
Returned(r) ==
  LET isBanner(e) ==
        e.ev = "log" /\ e.what \in {"=== Termine ===", "=== Erreur ==="}
  IN  [NewThread EXCEPT !.pc = "done", !.outcome = r.outcome,
                        !.trace = SelectSeq(r.trace, isBanner)]

\* line 448, the finally clause: the run button is enabled again, and
\* _pipeline_thread returns.  The thread is still alive until the interpreter
\* has ended it (ThreadExit).
Finally(i) ==
  /\ runs[i].pc = "finally"
  /\ btn_run' = BtnRunOnFinally
  /\ runs' = [runs EXCEPT ![i] = Returned(runs[i])]
  /\ UNCHANGED <<output_txt_var, status_var, btn_copy, logfile_path, files, dirs,
                 started, last_outcome, Fields, Harness>>

\* the thread that ran _pipeline_thread ends
ThreadExit(i) ==
  /\ runs[i].pc = "done"
  /\ runs' = [k \in 1..(Len(runs) - 1) |-> IF k < i THEN runs[k] ELSE runs[k + 1]]
  /\ UNCHANGED <<output_txt_var, status_var, btn_run, btn_copy, logfile_path,
                 files, dirs, started, last_outcome, Fields, Harness>>

\* the callbacks of the window, but for the run button
UiNext ==
  \/ \E v \in UrlInputs : EditUrl(v)
  \/ \E v \in WorkdirInputs : EditWorkdir(v)
  \/ \E v \in OutputInputs : EditOutput(v)
  \/ \E path \in DialogResults, log_ok \in LogOutcomes(logfile_path) :
       pick_workdir(path, log_ok)
  \/ \E log_ok \in LogOutcomes(logfile_path) : copy_txt(log_ok)

\* the steps of the worker threads: a thread is scheduled, the process it
\* waits for prints a line or exits
WorkerNext ==
  \/ \E i \in 1..Len(runs) : ReadUrl(i)
  \/ \E i \in 1..Len(runs) :
        /\ runs[i].pc = "ReadingWorkdir"
        /\ \E mk_ok \in BOOLEAN, popen_ok \in BOOLEAN,
              log_ok \in LogOutcomes(logfile_path) :
             Begin(i, mk_ok, popen_ok, log_ok)
  \/ \E i \in 1..Len(runs) : \E log_ok \in LogOutcomes(logfile_path) :
        Prints(i, log_ok)
  \/ \E i \in 1..Len(runs) :
        /\ runs[i].pc = "CheckingEngine"
        /\ \E rc \in ExitCodes, popen_ok \in BOOLEAN,
              log_ok \in LogOutcomes(logfile_path) :
             CheckExit(i, rc, popen_ok, log_ok)
  \/ \E i \in 1..Len(runs) : \E log_ok \in LogOutcomes(logfile_path) :
        FetchPrints(i, log_ok)
  \/ \E i \in 1..Len(runs) :
        /\ runs[i].pc = "Fetching"
        /\ \E rc \in ExitCodes, wrote \in FetchWrites(runs[i].video_dir) :
             FetchFails(i, rc, wrote)
  \/ \E i \in 1..Len(runs) :
        /\ runs[i].pc = "Fetching"
        /\ \E wrote \in FetchWrites(runs[i].video_dir),
              copy_ok \in BOOLEAN, x264_ok \in BOOLEAN,
              log_ok \in LogOutcomes(logfile_path) :
             FetchExit(i, wrote, copy_ok, x264_ok, log_ok)
  \/ \E i \in 1..Len(runs) :
        /\ runs[i].pc = "Normalizing"
        /\ \E rc \in ExitCodes, wrote \in SUBSET {runs[i].mp4_path},
              popen_ok \in BOOLEAN, log_ok \in LogOutcomes(logfile_path) :
             NormalizeExit(i, rc, wrote, popen_ok, log_ok)
  \/ \E i \in 1..Len(runs) :
        /\ runs[i].pc = "NormalizingFallback"
        /\ \E rc \in ExitCodes, wrote \in SUBSET {runs[i].mp4_path},
              popen_ok \in BOOLEAN, log_ok \in LogOutcomes(logfile_path) :
             FallbackExit(i, rc, wrote, popen_ok, log_ok)
  \/ \E i \in 1..Len(runs) :
        /\ runs[i].pc = "ExtractingAudio"
        /\ \E rc \in ExitCodes, wrote \in SUBSET {runs[i].wav_path},
              popen_ok \in BOOLEAN, log_ok \in LogOutcomes(logfile_path) :
             ExtractExit(i, rc, wrote, popen_ok, log_ok)
  \/ \E i \in 1..Len(runs) :
        /\ runs[i].pc = "Transcribing"
        /\ \E rc \in ExitCodes, rm_ok \in BOOLEAN, log_ok \in LogOutcomes(logfile_path),
              wrote \in WhisperWrites(runs[i]) :
             TranscribeExit(i, rc, wrote, rm_ok, log_ok)
  \/ \E i \in 1..Len(runs) : SetOutput(i)
  \/ \E i \in 1..Len(runs) : EnableCopy(i)
  \/ \E i \in 1..Len(runs) : \E log_ok \in LogOutcomes(logfile_path) : ReportSuccess(i, log_ok)
  \/ \E i \in 1..Len(runs) : \E log_ok \in LogOutcomes(logfile_path) : Except(i, log_ok)
  \/ \E i \in 1..Len(runs) : Finally(i)
  \/ \E i \in 1..Len(runs) : ThreadExit(i)

Next ==
  \/ UiNext
  \/ \E yt_ok \in BOOLEAN, ff_ok \in BOOLEAN, log_ok \in BOOLEAN :
       start_pipeline(yt_ok, ff_ok, log_ok)
  \/ WorkerNext

Spec == Init /\ [][Next]_vars

\* the program explored for MaxLiveRuns accepted starts
NextLive ==
  \/ UiNext
  \/ /\ started < MaxLiveRuns
     /\ \E yt_ok \in BOOLEAN, ff_ok \in BOOLEAN, log_ok \in BOOLEAN :
          start_pipeline(yt_ok, ff_ok, log_ok)
  \/ WorkerNext

\* the program with worker threads that keep being scheduled and external
\* processes that all exit
SpecLive == Init /\ [][NextLive]_vars /\ WF_vars(WorkerNext)


\* --------------------------------------------- download_youtube taken alone
\* the destination directory and the files and directories around the call
DlVideoDir == Join(Getcwd, S_video)

DlFileUniverse ==
  { Join(DlVideoDir, ExpandedBase \o Ext_mkv),
    Join(DlVideoDir, BaseTemplate(DateTag) \o Ext_mkv),
    Join(DlVideoDir, BaseTemplate(DateTag) \o Ext_mp4) }

DlDirUniverse == { Join(DlVideoDir, BaseTemplate(DateTag) \o <<".","d">>) }

\* the lines the downloader may print
DlLines ==
  { <<>>, <<" ">>, <<"E","R","R">>,
    Join(DlVideoDir, ExpandedBase \o Ext_mkv),
    <<" ">> \o Join(DlVideoDir, ExpandedBase \o Ext_mkv) \o <<" ">> }

DlCalls ==
  [state : {"called"}, rc : ExitCodes,
   out_lines : UNION {[1..n -> DlLines] : n \in 0..MaxOutLines},
   fs : SUBSET DlFileUniverse,
   ds : {{Getcwd} \cup d : d \in SUBSET DlDirUniverse},
   ret : {<<>>}, error : {NoError}]

InitFetch ==
  /\ url_var = <<>>
  /\ workdir_var = Getcwd
  /\ output_txt_var = <<>>
  /\ status_var = "Pret"
  /\ btn_run = "normal"
  /\ btn_copy = "disabled"
  /\ logfile_path = <<>>
  /\ files = {}
  /\ dirs = {Getcwd}
  /\ runs = <<>>
  /\ started = 0
  /\ dl \in DlCalls
  /\ logger = NoLogger
  /\ rcs = NoRun
  /\ callers = NoCallers
  /\ wcmd = NoCmd
  /\ last_outcome = "none"
  /\ clipboard = <<>>

\* download_youtube(url, video_dir, base_with_date, logger), the downloader
\* having exited with dl.rc after printing dl.out_lines
download_youtube ==
  /\ dl.state = "called"
  /\ LET ds == safe_makedirs(dl.ds, DlVideoDir)
         out == JoinLines(dl.out_lines)
         found == DownloadYoutube(out, DlVideoDir, BaseTemplate(DateTag), dl.fs, ds)
     IN  IF RunCmdRaises(dl.rc)
         THEN dl' = [dl EXCEPT !.state = "raised", !.ds = ds, !.error = CmdError(dl.rc)]
         ELSE IF found = {}
         THEN dl' = [dl EXCEPT !.state = "raised", !.ds = ds,
                               !.error = OtherError("fichier video introuvable")]
         ELSE \E p \in found :
                dl' = [dl EXCEPT !.state = "returned", !.ds = ds, !.ret = p]
  /\ UNCHANGED <<url_var, workdir_var, output_txt_var, status_var, btn_run,
                 btn_copy, logfile_path, files, dirs, runs, started, logger,
                 rcs, callers, wcmd, last_outcome, clipboard>>

NextFetch == download_youtube

SpecFetch == InitFetch /\ [][NextFetch]_vars

\* ----------------------------------------------- start_pipeline taken alone
\* what the URL field and the directory field may hold when the run button is
\* pressed
StartUrls ==
  { <<>>, <<" ">>, <<"f","t","p",":","/","/","u">>, <<"h","t","t","p">>,
    <<"x">> \o S_http \o <<"u">>, S_http \o <<"u">>,
    <<" ">> \o S_https \o <<"u">> \o <<" ">> }

StartWorkdirs == { <<>>, Getcwd, DirX, <<" ">> \o Getcwd \o <<" ">> }

InitStart ==
  /\ url_var \in StartUrls
  /\ workdir_var \in StartWorkdirs
  /\ output_txt_var = <<>>
  /\ status_var = "Pret"
  /\ btn_run = "normal"
  /\ btn_copy = "disabled"
  /\ logfile_path \in {<<>>, Join(Getcwd, S_logname)}
  /\ files = {}
  /\ dirs \in {{Getcwd}, {Getcwd, DirX}}
  /\ runs = <<>>
  /\ started = 0
  /\ dl = NoCall
  /\ logger = NoLogger
  /\ rcs = NoRun
  /\ callers = NoCallers
  /\ wcmd = NoCmd
  /\ last_outcome = "none"
  /\ clipboard = <<>>

\* the run button is pressed
NextStart ==
  \E yt_ok \in BOOLEAN, ff_ok \in BOOLEAN, log_ok \in BOOLEAN :
    start_pipeline(yt_ok, ff_ok, log_ok)

SpecStart == InitStart /\ [][NextStart]_vars

\* --------------------------------------------------------------- the Logger
\* Logger._write_file: the line is appended to the log file when a path is
\* set and the write succeeds (ok); a failing write is swallowed
AppendLog(L, path, msg, ok) ==
  IF path # <<>> /\ ok THEN [L EXCEPT !.file = Append(@, msg)] ELSE L

\* self.q.put(msg)
Put(L, msg) == [L EXCEPT !.q = Append(@, msg)]

\* mutant: the line goes to the file only
LogFileOnly(L, path, msg, ok) == AppendLog(L, path, msg, ok)

\* Logger.log called by one thread with no other caller in between
Log(L, path, msg, ok) == Put(AppendLog(L, path, msg, ok), msg)

\* Logger._pump: the queue is emptied into the Text widget, oldest first
Pump(L) == [L EXCEPT !.text = @ \o L.q, !.q = <<>>]

\* the lines handed to the Logger so far, shown or still queued
Delivered(L) == L.text \o L.q

\* ----------------------------------------------- run_cmd_stream taken alone
\* Length of the output of the process explored.
MaxStreamLen == 3

NL == "\n"

\* what a process may write to its stdout and stderr, which share one pipe;
\* the text layer of Popen hands line breaks over as "\n"
RECURSIVE Streams(_)
Streams(n) ==
  IF n = 0 THEN {<<>>}
  ELSE LET shorter == Streams(n - 1)
       IN  shorter \cup {Append(t, c) : t \in shorter, c \in {"a", "b", NL}}

\* str.rstrip("\n")
RECURSIVE RStripNl(_)
RStripNl(line) ==
  IF line # <<>> /\ line[Len(line)] = NL
  THEN RStripNl(SubSeq(line, 1, Len(line) - 1))
  ELSE line

\* how many characters of the pipe the next line of `for line in p.stdout`
\* takes: up to the first line break, or all that is left at end of file;
\* 0 while the reader has to wait
NextLineLen(pipe, eof) ==
  LET nls == {k \in 1..Len(pipe) : pipe[k] = NL}
  IN  IF nls # {} THEN CHOOSE k \in nls : \A j \in nls : k <= j
      ELSE IF eof THEN Len(pipe) ELSE 0

InitStream ==
  /\ url_var = <<>>
  /\ workdir_var = Getcwd
  /\ output_txt_var = <<>>
  /\ status_var = "Pret"
  /\ btn_run = "normal"
  /\ btn_copy = "disabled"
  /\ logfile_path \in {<<>>, Join(Getcwd, S_logname)}
  /\ files = {}
  /\ dirs = {Getcwd}
  /\ runs = <<>>
  /\ started = 0
  /\ dl = NoCall
  /\ logger = NoLogger
  /\ \E output \in Streams(MaxStreamLen), rc \in ExitCodes :
       rcs = [NoRun EXCEPT !.pc = "called", !.output = output,
                           !.stream = output, !.rc = rc]
  /\ callers = NoCallers
  /\ wcmd = NoCmd
  /\ last_outcome = "none"
  /\ clipboard = <<>>

\* the harness variables a step of run_cmd_stream leaves alone
StreamFrame ==
  UNCHANGED <<url_var, workdir_var, output_txt_var, status_var, btn_run,
              btn_copy, logfile_path, files, dirs, runs, started, dl, callers, wcmd,
              last_outcome, clipboard>>

\* logger.log(f"$ {_pretty_cmd(cmd)}") and subprocess.Popen
Popen(ok) ==
  /\ rcs.pc = "called"
  /\ logger' = Log(logger, logfile_path, <<"$">>, ok)
  /\ rcs' = [rcs EXCEPT !.pc = "reading"]
  /\ StreamFrame

\* the process writes its next character into the pipe
ProcWrite ==
  /\ rcs.pc \notin {"none", "called"}
  /\ rcs.stream # <<>>
  /\ rcs' = [rcs EXCEPT !.pipe = Append(@, Head(rcs.stream)), !.stream = Tail(@)]
  /\ UNCHANGED logger
  /\ StreamFrame

\* the process has written everything: it closes the pipe and exits
ProcExit ==
  /\ rcs.pc \notin {"none", "called"}
  /\ rcs.stream = <<>>
  /\ ~rcs.exited
  /\ rcs' = [rcs EXCEPT !.exited = TRUE]
  /\ UNCHANGED logger
  /\ StreamFrame

\* one turn of `for line in p.stdout`: rstrip, append, log
ReadLine(ok) ==
  /\ rcs.pc = "reading"
  /\ LET n == NextLineLen(rcs.pipe, rcs.exited)
         line == RStripNl(SubSeq(rcs.pipe, 1, n))
     IN  /\ n > 0
         /\ rcs' = [rcs EXCEPT !.pipe = SubSeq(@, n + 1, Len(@)),
                               !.out_lines = Append(@, line)]
         /\ logger' = Log(logger, logfile_path, line, ok)
  /\ StreamFrame

\* end of file ends the loop; rc = p.wait(); raise or return
WaitExit ==
  /\ rcs.pc = "reading"
  /\ rcs.exited
  /\ rcs.pipe = <<>>
  /\ rcs' = IF RunCmdRaises(rcs.rc)
            THEN [rcs EXCEPT !.pc = "raised", !.error = CmdError(rcs.rc)]
            ELSE [rcs EXCEPT !.pc = "returned", !.ret = JoinLines(rcs.out_lines)]
  /\ UNCHANGED logger
  /\ StreamFrame

\* the timer of the UI thread fires: Logger._pump
PumpTick ==
  /\ logger.q # <<>>
  /\ logger' = Pump(logger)
  /\ UNCHANGED rcs
  /\ StreamFrame

NextStream ==
  \/ \E ok \in BOOLEAN : Popen(ok)
  \/ ProcWrite
  \/ ProcExit
  \/ \E ok \in BOOLEAN : ReadLine(ok)
  \/ WaitExit
  \/ PumpTick

SpecStream == InitStream /\ [][NextStream]_vars

\* --------------------------------------- explain_whisper_command taken alone
\* mutant: the language flag is passed whatever the language
explain_whisper_command_flagged(python_exe, wav_path, out_dir, model, lang) ==
  << python_exe, "-m", "whisper", wav_path, "--model", model,
     "--device", "cuda", "--task", "transcribe", "--output_dir", out_dir,
     "--output_format", "txt", "--verbose", "True", "--language", lang >>

\* explain_whisper_command: the argument vector of the recognizer
explain_whisper_command(python_exe, wav_path, out_dir, model, lang) ==
  LET cmd == << python_exe, "-m", "whisper", wav_path, "--model", model,
                "--device", "cuda", "--task", "transcribe",
                "--output_dir", out_dir, "--output_format", "txt",
                "--verbose", "True" >>
  IN  IF lang # "auto" THEN cmd \o <<"--language", lang>> ELSE cmd

\* the values of the two comboboxes, and other strings a caller may pass
Models == {"tiny", "base", "small", "medium", "large"}

Langs == {"fr", "en", "es", "auto", "Auto", "auto ", ""}

WhisperCalls ==
  [state : {"called"}, python_exe : {"python3"},
   wav_path : {"C/mp4/T.wav", "X/mp4/T.wav"}, out_dir : {"C/txt", "X/txt"},
   model : Models, lang : Langs, cmd : {<<>>}]

InitWhisper ==
  /\ url_var = <<>>
  /\ workdir_var = Getcwd
  /\ output_txt_var = <<>>
  /\ status_var = "Pret"
  /\ btn_run = "normal"
  /\ btn_copy = "disabled"
  /\ logfile_path = <<>>
  /\ files = {}
  /\ dirs = {Getcwd}
  /\ runs = <<>>
  /\ started = 0
  /\ dl = NoCall
  /\ logger = NoLogger
  /\ rcs = NoRun
  /\ callers = NoCallers
  /\ wcmd \in WhisperCalls
  /\ last_outcome = "none"
  /\ clipboard = <<>>

\* run_whisper: cmd = explain_whisper_command(...)
run_whisper ==
  /\ wcmd.state = "called"
  /\ wcmd' = [wcmd EXCEPT !.state = "returned",
                !.cmd = explain_whisper_command(wcmd.python_exe, wcmd.wav_path,
                                                wcmd.out_dir, wcmd.model, wcmd.lang)]
  /\ UNCHANGED <<url_var, workdir_var, output_txt_var, status_var, btn_run,
                 btn_copy, logfile_path, files, dirs, runs, started, dl, logger,
                 rcs, callers, last_outcome, clipboard>>

NextWhisper == run_whisper

SpecWhisper == InitWhisper /\ [][NextWhisper]_vars

\* ------------------------------------------- Logger.log called by two threads
\* Number of lines each thread logs.
MaxLogCalls == 2

\* the lines of the UI thread (pick_workdir, copy_txt) and of the worker
LinesOf(t, n) == [k \in 1..n |-> <<t, IF k = 1 THEN "1" ELSE IF k = 2 THEN "2" ELSE "3">>]

Threads == {"u", "w"}

InitLog ==
  /\ url_var = <<>>
  /\ workdir_var = Getcwd
  /\ output_txt_var = <<>>
  /\ status_var = "Pret"
  /\ btn_run = "normal"
  /\ btn_copy = "disabled"
  /\ logfile_path \in {<<>>, Join(Getcwd, S_logname)}
  /\ files = {}
  /\ dirs = {Getcwd}
  /\ runs = <<>>
  /\ started = 0
  /\ dl = NoCall
  /\ logger = NoLogger
  /\ rcs = NoRun
  /\ \E nu \in 1..MaxLogCalls, nw \in 1..MaxLogCalls :
       callers = [t \in Threads |->
                    [pc |-> "idle", todo |-> LinesOf(t, IF t = "u" THEN nu ELSE nw)]]
  /\ wcmd = NoCmd
  /\ last_outcome = "none"
  /\ clipboard = <<>>

\* the variables a step of Logger.log leaves alone
LogFrame ==
  UNCHANGED <<url_var, workdir_var, output_txt_var, status_var, btn_run,
              btn_copy, logfile_path, files, dirs, runs, started, dl, rcs, wcmd,
              last_outcome, clipboard>>

\* Logger.log, first statement: self._write_file(msg)
LogWrite(t, ok) ==
  /\ callers[t].pc = "idle"
  /\ callers[t].todo # <<>>
  /\ logger' = AppendLog(logger, logfile_path, Head(callers[t].todo), ok)
  /\ callers' = [callers EXCEPT ![t].pc = "put"]
  /\ LogFrame

\* Logger.log, second statement: self.q.put(msg)
LogPut(t) ==
  /\ callers[t].pc = "put"
  /\ logger' = Put(logger, Head(callers[t].todo))
  /\ callers' = [callers EXCEPT ![t].pc = "idle", ![t].todo = Tail(@)]
  /\ LogFrame

\* the timer of the UI thread fires between two of its callbacks
LogPump ==
  /\ callers["u"].pc = "idle"
  /\ logger.q # <<>>
  /\ logger' = Pump(logger)
  /\ UNCHANGED callers
  /\ LogFrame

NextLog ==
  \/ \E t \in Threads, ok \in BOOLEAN : LogWrite(t, ok)
  \/ \E t \in Threads : LogPut(t)
  \/ LogPump

SpecLog == InitLog /\ [][NextLog]_vars

\* ------------------------------------------------- reading a worker's trace
\* the positions of trace tr that hold an entry of kind ev for what
At(tr, ev, what) == {k \in 1..Len(tr) : tr[k].ev = ev /\ tr[k].what = what}

\* how many processes were launched, and how many waited for, before position k
LaunchedBefore(tr, k) == Cardinality({j \in 1..(k - 1) : tr[j].ev = "launch"})

ExitedBefore(tr, k) == Cardinality({j \in 1..(k - 1) : tr[j].ev = "exit"})

\* the stage-start notifications of a trace, in the order they were logged
StageStarts(tr) ==
  LET isStart(e) == e.ev = "log" /\ e.what \in {"[1/4]", "[2/4]", "[3/4]", "[4/4]"}
      starts == SelectSeq(tr, isStart)
  IN  [k \in 1..Len(starts) |-> starts[k].what]

\* ------------------------------------------------------------------ claims
\* C1: in every run the stage-start notifications come in the order Fetch,
\* Normalize, ExtractAudio, Transcribe, each at most once, and when a stage
\* start is notified (or a process launched) every process launched earlier
\* in the run has exited, so no two stages overlap.
C1_StageOrder ==
  \A i \in 1..Len(runs) :
    LET tr == runs[i].trace
        order == <<"[1/4]", "[2/4]", "[3/4]", "[4/4]">>
        starts == StageStarts(tr)
    IN  /\ Len(starts) <= 4
        /\ starts = SubSeq(order, 1, Len(starts))
        /\ \A k \in 1..Len(tr) :
             (tr[k].ev = "launch" \/ (tr[k].ev = "log" /\ tr[k].what # "[0/4]"))
               => LaunchedBefore(tr, k) = ExitedBefore(tr, k)

\* a run has notified all four stage starts and is transcribing
C1_Witness ==
  \E i \in 1..Len(runs) :
    /\ runs[i].pc = "Transcribing"
    /\ StageStarts(runs[i].trace) = <<"[1/4]", "[2/4]", "[3/4]", "[4/4]">>

\* C2: fail-fast.  Once a process other than the stream-copy attempt has ended
\* with a non-zero status or could not be started, or the error banner has
\* been logged, the run starts no further process and attempts none: the
\* worker is in its except clause or past it, and past it the outcome is
\* Failed; after a failed engine check no downloader, transcoder or
\* recognizer is launched.
C2_FailFast ==
  \A i \in 1..Len(runs) :
    LET tr == runs[i].trace
    IN  \A k \in 1..Len(tr) :
          (\/ tr[k].ev = "exit" /\ tr[k].rc # 0 /\ tr[k].what # "ffmpeg-copy"
           \/ tr[k].ev = "popen-raised" /\ tr[k].what # "ffmpeg-copy"
           \/ tr[k].ev = "log" /\ tr[k].what = "=== Erreur ===")
            => /\ \A j \in (k + 1)..Len(tr) :
                    tr[j].ev \notin {"launch", "popen-raised"}
               /\ runs[i].pc \in {"except", "finally", "done"}
               /\ runs[i].pc \in {"finally", "done"} => runs[i].outcome = "Failed"

\* the engine check failed and the run is over, with nothing else launched
C2_Witness ==
  \E i \in 1..Len(runs) :
    /\ \E k \in At(runs[i].trace, "exit", "whisper-check") : runs[i].trace[k].rc # 0
    /\ runs[i].outcome = "Failed"
    /\ LaunchedBefore(runs[i].trace, Len(runs[i].trace) + 1) = 1

\* C3 as stated: at most one pipeline worker, hence at most one external
\* process, exists at any time, and while one exists the run button is
\* disabled, so that no start request is accepted before the worker has ended.
C3_Original ==
  /\ Len(runs) <= 1
  /\ Cardinality({i \in 1..Len(runs) : runs[i].pc \in ProcessPcs}) <= 1
  /\ runs # <<>> => btn_run = "disabled"

\* C3 as amended: at most one worker has a statement left to run, hence at
\* most one external process exists, at any time; while such a worker exists
\* the run button is disabled; and a start is accepted only when every worker
\* that still exists has run its last statement (line 448) and has only to
\* return.
C3_SingleRun ==
  /\ [](/\ Cardinality({i \in 1..Len(runs) : runs[i].pc # "done"}) <= 1
        /\ Cardinality({i \in 1..Len(runs) : runs[i].pc \in ProcessPcs}) <= 1
        /\ (\E i \in 1..Len(runs) : runs[i].pc # "done") => btn_run = "disabled")
  /\ [][started' = started + 1
          => /\ btn_run = "normal"
             /\ \A i \in 1..Len(runs) : runs[i].pc = "done"]_vars

\* a second run is under way while the thread of the first, which has enabled
\* the run button, has not returned yet
C3_Witness ==
  /\ started = 2
  /\ Len(runs) = 2
  /\ runs[1].pc = "done"
  /\ runs[2].pc \in ProcessPcs

\* C4: while Normalize runs the fetched video exists, while ExtractAudio runs
\* mp4/<base>.mp4 exists, while Transcribe runs mp4/<base>.wav exists: a stage
\* whose output is missing is never followed by the next stage.
C4_InputsExist ==
  \A i \in 1..Len(runs) :
    LET r == runs[i]
    IN  /\ r.pc \in {"Normalizing", "NormalizingFallback", "ExtractingAudio",
                     "Transcribing"}
             => r.downloaded_path # <<>> /\ r.downloaded_path \in files
        /\ r.pc \in {"ExtractingAudio", "Transcribing"}
             => Join(Join(r.workdir, S_mp4), r.base \o Ext_mp4) \in files
        /\ r.pc = "Transcribing"
             => Join(Join(r.workdir, S_mp4), r.base \o Ext_wav) \in files

\* a transcoder exited 0 without leaving the mp4: the run failed there
C4_Witness ==
  \E i \in 1..Len(runs) :
    LET tr == runs[i].trace
    IN  /\ runs[i].outcome = "Failed"
        /\ \E k \in At(tr, "exit", "ffmpeg-copy") : tr[k].rc = 0
        /\ runs[i].mp4_path \notin files
        /\ At(tr, "launch", "ffmpeg-wav") = {}

\* the positions of trace tr at which tool was started or could not be
Attempts(tr, tool) == At(tr, "launch", tool) \cup At(tr, "popen-raised", tool)

\* C5 as stated: the re-encode command is invoked at most once, and it is
\* invoked if and only if the stream-copy command exited non-zero; when both
\* exit non-zero the run fails and no further transcoder command is launched.
C5_Original ==
  \A i \in 1..Len(runs) :
    LET tr == runs[i].trace
        copyFailed == \E k \in At(tr, "exit", "ffmpeg-copy") : tr[k].rc # 0
    IN  /\ Cardinality(Attempts(tr, "ffmpeg-x264")) <= 1
        /\ Attempts(tr, "ffmpeg-x264") # {} <=> copyFailed
        /\ (\E k \in At(tr, "exit", "ffmpeg-x264") : tr[k].rc # 0)
             => /\ runs[i].pc \in {"except", "finally", "done"}
                /\ Attempts(tr, "ffmpeg-wav") = {}

\* C5 as amended: the stream-copy command and the re-encode command are each
\* invoked at most once, and the re-encode command is invoked if and only if
\* the stream-copy command failed, that is exited non-zero or could not be
\* started; when the re-encode command fails too (exits non-zero or cannot
\* be started) the run fails (the worker is in its except clause, or past it
\* with the outcome Failed) and no further transcoder command is invoked.
C5_FallbackOnce ==
  \A i \in 1..Len(runs) :
    LET tr == runs[i].trace
        copyFailed == \/ \E k \in At(tr, "exit", "ffmpeg-copy") : tr[k].rc # 0
                      \/ At(tr, "popen-raised", "ffmpeg-copy") # {}
        x264Failed == \/ \E k \in At(tr, "exit", "ffmpeg-x264") : tr[k].rc # 0
                      \/ At(tr, "popen-raised", "ffmpeg-x264") # {}
    IN  /\ Cardinality(Attempts(tr, "ffmpeg-copy")) <= 1
        /\ Cardinality(Attempts(tr, "ffmpeg-x264")) <= 1
        /\ Attempts(tr, "ffmpeg-x264") # {} <=> copyFailed
        /\ \A k \in Attempts(tr, "ffmpeg-x264") :
             \E j \in Attempts(tr, "ffmpeg-copy") : j < k
        /\ x264Failed
             => /\ runs[i].pc \in {"except", "finally", "done"}
                /\ runs[i].pc \in {"finally", "done"} => runs[i].outcome = "Failed"
                /\ Attempts(tr, "ffmpeg-wav") = {}

\* the stream copy could not be started, the re-encode command was, and it
\* exited non-zero
C5_Witness ==
  \E i \in 1..Len(runs) :
    LET tr == runs[i].trace
    IN  /\ At(tr, "popen-raised", "ffmpeg-copy") # {}
        /\ \E k \in At(tr, "exit", "ffmpeg-x264") : tr[k].rc # 0
        /\ runs[i].outcome = "Failed"


\* C6: when the recognizer exits 0 and txt/<base>.txt is absent, the .txt
\* files of the recognizer's output directory <workdir>/txt whose name starts
\* with the base name are the candidates: the first in string order is
\* reported, and with no candidate the run fails for the missing output.
C6_ScanOutputDir ==
  \A i \in 1..Len(runs) :
    LET r == runs[i]
        tr == r.trace
        txt_dir == Join(r.workdir, S_txt)
        cands == {f \in Listdir(txt_dir, files, dirs) :
                    EndsWith(f, Ext_txt) /\ StartsWith(f, r.base)}
    IN  (/\ r.pc = "finally"
         /\ \E k \in At(tr, "exit", "whisper") : tr[k].rc = 0
         /\ Join(txt_dir, r.base \o Ext_txt) \notin files)
          => IF cands # {}
             THEN /\ r.outcome = "Succeeded"
                  /\ r.txt_path = Join(txt_dir, SortedFirst(cands))
             ELSE /\ r.outcome = "Failed"
                  /\ r.error = OtherError("TXT introuvable")

\* C7: when a run ends in Failed, the artifacts of its earlier stages are
\* still there: the fetched video if Normalize was started, the mp4 if
\* ExtractAudio was started, the wav if Transcribe was started.
C7_NoRollback ==
  \A i \in 1..Len(runs) :
    LET r == runs[i]
        tr == r.trace
    IN  (r.pc = "finally" /\ r.outcome = "Failed")
          => /\ At(tr, "launch", "ffmpeg-copy") # {} => r.downloaded_path \in files
             /\ At(tr, "launch", "ffmpeg-wav") # {} => r.mp4_path \in files
             /\ At(tr, "launch", "whisper") # {} => r.wav_path \in files

\* C9: a run that ends in Succeeded leaves video/<base>.<ext>, mp4/<base>.mp4
\* and the reported text artifact txt/<base>.txt, all existing when success
\* is reported.
C9_ArtifactsExist ==
  \A i \in 1..Len(runs) :
    LET r == runs[i]
    IN  (r.pc = "finally" /\ r.outcome = "Succeeded")
          => /\ r.downloaded_path \in files
             /\ Dirname(r.downloaded_path) = Join(r.workdir, S_video)
             /\ SplitextRoot(Basename(r.downloaded_path)) = r.base
             /\ Join(Join(r.workdir, S_mp4), r.base \o Ext_mp4) \in files
             /\ r.txt_path = Join(Join(r.workdir, S_txt), r.base \o Ext_txt)
             /\ r.txt_path \in files

\* C10: after a run that ends in Succeeded, mp4/<base>.wav does not exist.
C10_WavRemoved ==
  \A i \in 1..Len(runs) :
    (runs[i].pc = "finally" /\ runs[i].outcome = "Succeeded")
      => Join(Join(runs[i].workdir, S_mp4), runs[i].base \o Ext_wav) \notin files


\* C8: download_youtube.  A non-zero exit of the downloader raises.  After
\* exit 0: if the last non-blank printed line (stripped) names an existing
\* file, that path is returned; otherwise, if video_dir holds regular files
\* whose name starts with the name template followed by a dot, one of them is
\* returned; otherwise the call raises.
C8_FetchResolution ==
  LET ls == dl.out_lines
      nonblank == {k \in 1..Len(ls) : \E j \in 1..Len(ls[k]) : ls[k][j] # " "}
      printed == IF nonblank = {} THEN <<>>
                 ELSE Strip(ls[CHOOSE k \in nonblank : \A j \in nonblank : j <= k])
      prefix == S_template \o DateTag \o DOT
      cands == {p \in dl.fs : /\ Dirname(p) = DlVideoDir
                              /\ StartsWith(Basename(p), prefix)}
  IN  dl.state \in {"returned", "raised"}
        => IF dl.rc # 0
           THEN dl.state = "raised" /\ dl.error = CmdError(dl.rc)
           ELSE IF printed # <<>> /\ printed \in dl.fs
           THEN dl.state = "returned" /\ dl.ret = printed
           ELSE IF cands # {}
           THEN dl.state = "returned" /\ dl.ret \in cands
           ELSE dl.state = "raised"

\* the printed path names no file and a file named after the template is
\* returned instead
C8_Witness ==
  /\ dl.state = "returned"
  /\ dl.rc = 0
  /\ \E k \in 1..Len(dl.out_lines) :
       Strip(dl.out_lines[k]) = Join(DlVideoDir, ExpandedBase \o Ext_mkv)
  /\ Join(DlVideoDir, ExpandedBase \o Ext_mkv) \notin dl.fs
  /\ StartsWith(Basename(dl.ret), S_template)

\* C11: cleanup is best-effort.  When the recognizer exited 0 and the deletion
\* of the wav failed (no deletion was logged), the failure is notified by a
\* log line of its own between the recognizer's exit and the terminal banner,
\* and the run ends in Succeeded reporting the text path when that file exists.
C11_CleanupLogged ==
  \A i \in 1..Len(runs) :
    LET r == runs[i]
        tr == r.trace
    IN  (/\ r.pc = "finally"
         /\ \E k \in At(tr, "exit", "whisper") : tr[k].rc = 0
         /\ At(tr, "log", "WAV supprime") = {})
          => /\ \E k \in At(tr, "exit", "whisper") :
                  \E j \in (k + 1)..Len(tr) :
                    /\ tr[j].ev = "log"
                    /\ tr[j].what \notin {"=== Termine ===", "=== Erreur ==="}
             /\ IsFile(r.txt_path, files)
                  => r.outcome = "Succeeded"

\* the terminal banners a worker has logged
TerminalBanners(tr) ==
  Cardinality(At(tr, "log", "=== Termine ===") \cup At(tr, "log", "=== Erreur ==="))

\* C12: every started run terminates with exactly one terminal outcome.  A
\* worker has an outcome exactly when it has reported one, the text file in
\* the output field (line 433) or the error in the status line (line 444);
\* that outcome is Succeeded or Failed and never changes; when the worker
\* reaches its finally clause exactly one terminal banner was logged for it,
\* the one of its outcome, none before and none after; every run that has
\* started reaches its outcome, and then the worker ends, after it has
\* enabled the run button again, whichever stage failed.
C12_Terminates ==
  /\ [](\A i \in 1..Len(runs) :
          LET r == runs[i]
          IN  /\ r.outcome \in {"none", "Succeeded", "Failed"}
              /\ r.outcome # "none"
                   <=> r.pc \in {"EnablingCopy", "Reporting", "finally", "done"}
              /\ r.pc \in {"EnablingCopy", "Reporting"} => r.outcome = "Succeeded"
              /\ TerminalBanners(r.trace)
                   = (IF r.pc \in {"finally", "done"} THEN 1 ELSE 0)
              /\ At(r.trace, "log", "=== Termine ===") # {} => r.outcome = "Succeeded"
              /\ At(r.trace, "log", "=== Erreur ===") # {} => r.outcome = "Failed")
  /\ [][\A i \in 1..Len(runs) :
          (runs[i].outcome # "none" /\ Len(runs') = Len(runs))
            => runs'[i].outcome = runs[i].outcome]_vars
  /\ (runs # <<>>) ~> (runs # <<>> /\ runs[1].outcome \in {"Succeeded", "Failed"})
  /\ (runs # <<>>) ~> (runs = <<>> /\ btn_run = "normal")
  /\ [][runs # <<>> /\ runs' = <<>>
          => runs[1].pc = "done" /\ btn_run = "normal"]_vars

\* a run failed in its last stage and the controller is about to be idle again
C12_Witness ==
  \E i \in 1..Len(runs) :
    /\ runs[i].pc = "finally"
    /\ runs[i].outcome = "Failed"
    /\ \E k \in At(runs[i].trace, "exit", "whisper") : runs[i].trace[k].rc # 0
    /\ btn_run = "disabled"

\* C13: the request is immutable once a run starts.  The URL the worker hands
\* to its stages passed the test the start was accepted on, and its work
\* directory is the validated one, which holds the run's log file, whatever
\* the fields of the window were changed to after the start was accepted.
C13_RequestImmutable ==
  \A i \in 1..Len(runs) :
    /\ runs[i].pc \notin {"start", "done"} => ValidUrl(runs[i].url)
    /\ runs[i].pc \notin {"start", "ReadingWorkdir", "done"}
         => runs[i].workdir = Dirname(logfile_path)

\* C14: an invalid request is rejected without starting a run.  When the run
\* button is pressed while the URL (as typed, blanks around it aside) is empty
\* or starts with neither http:// nor https://, or while the work directory
\* (the current directory when the field is blank) does not exist, no worker
\* is created, no directory is created, the run button stays enabled and the
\* log-file path is left as it was.
C14_InvalidRejected ==
  [][LET url == Strip(url_var)
         typed == Strip(workdir_var)
         workdir == IF typed = <<>> THEN Getcwd ELSE typed
         badUrl == \/ url = <<>>
                   \/ /\ ~(Len(url) >= 7 /\ SubSeq(url, 1, 7) = S_http)
                      /\ ~(Len(url) >= 8 /\ SubSeq(url, 1, 8) = S_https)
     IN  (badUrl \/ workdir \notin dirs)
           => /\ runs' = runs
              /\ started' = started
              /\ dirs' = dirs
              /\ btn_run' = btn_run /\ btn_run' = "normal"
              /\ logfile_path' = logfile_path]_vars

\* a start was refused for a URL that is not empty but has another scheme,
\* with a log file configured before
C14_Witness ==
  /\ status_var = "Erreur: URL invalide"
  /\ Strip(url_var) # <<>>
  /\ logfile_path # <<>>
  /\ runs = <<>>
  /\ btn_run = "normal"

\* the stage a worker was in when it logged its last stage banner ("Start"
\* before the first)
StageOfBanner(b) ==
  CASE b = "[0/4]" -> "CheckingEngine"
    [] b = "[1/4]" -> "Fetch"
    [] b = "[2/4]" -> "Normalize"
    [] b = "[3/4]" -> "ExtractAudio"
    [] b = "[4/4]" -> "Transcribe"

LastStage(tr) ==
  LET bs == {k \in 1..Len(tr) :
               tr[k].ev = "log" /\ tr[k].what \in {"[0/4]", "[1/4]", "[2/4]", "[3/4]", "[4/4]"}}
  IN  IF bs = {} THEN "Start"
      ELSE StageOfBanner(tr[CHOOSE k \in bs : \A j \in bs : j <= k].what)

\* C15: the failure surfaced for a run that ends in Failed names the stage the
\* run failed in, and when the run failed because a process exited non-zero
\* the surfaced message carries that process's command line and exit code.
C15_FailureDiagnostic ==
  \A i \in 1..Len(runs) :
    LET r == runs[i]
        tr == r.trace
    IN  (r.pc = "finally" /\ r.outcome = "Failed")
          => /\ r.error.stage = LastStage(tr)
             /\ \A k \in 1..Len(tr) :
                  (tr[k].ev = "exit" /\ tr[k].rc # 0 /\ tr[k].what # "ffmpeg-copy")
                    => r.error.code = tr[k].rc /\ r.error.cmd = tr[k].what

\* C16: run_cmd_stream hands every line of the process's output to the Logger
\* exactly once and in the order the process wrote them: what was delivered is
\* at all times the command line followed by the first lines of the output,
\* and it is all of them when run_cmd_stream returns or raises.
C16_Streaming ==
  LET lines == Splitlines(rcs.output)
      delivered == Delivered(logger)
  IN  /\ rcs.pc = "called" => delivered = <<>>
      /\ rcs.pc \notin {"none", "called"}
           => /\ delivered # <<>> /\ Head(delivered) = <<"$">>
              /\ Len(delivered) - 1 <= Len(lines)
              /\ Tail(delivered) = SubSeq(lines, 1, Len(delivered) - 1)
              /\ rcs.out_lines = Tail(delivered)
      /\ rcs.pc \in {"returned", "raised"}
           => /\ Tail(delivered) = lines
              /\ rcs.pc = "raised" <=> rcs.rc # 0

\* the runner raised after delivering two lines, the second of which the
\* process had not ended with a line break
C16_Witness ==
  /\ rcs.pc = "raised"
  /\ rcs.output = <<"b", NL, "a">>
  /\ logger.text \o logger.q = << <<"$">>, <<"b">>, <<"a">> >>

\* the arguments of a vector other than the language flag and its value
OtherArgs(cmd) ==
  LET flags == {k \in 1..Len(cmd) : cmd[k] = "--language"}
      kept == {k \in 1..Len(cmd) : k \notin flags /\ (k - 1) \notin flags}
      nth(n) == CHOOSE k \in kept : Cardinality({j \in kept : j < k}) = n - 1
  IN  [n \in 1..Cardinality(kept) |-> cmd[nth(n)]]

\* C17: the recognizer's argument vector holds the language flag, followed by
\* the requested language, if and only if the language is not "auto"; with
\* "auto" it holds no language flag; and its other arguments are the same
\* sixteen, in the same order, for every language.
C17_LanguageFlag ==
  LET cmd == wcmd.cmd
      flags == {k \in 1..Len(cmd) : cmd[k] = "--language"}
  IN  wcmd.state = "returned"
        => /\ wcmd.lang # "auto"
                => /\ Cardinality(flags) = 1
                   /\ \A k \in flags : k < Len(cmd) /\ cmd[k + 1] = wcmd.lang
           /\ wcmd.lang = "auto" => flags = {}
           /\ OtherArgs(cmd) =
                << wcmd.python_exe, "-m", "whisper", wcmd.wav_path,
                   "--model", wcmd.model, "--device", "cuda",
                   "--task", "transcribe", "--output_dir", wcmd.out_dir,
                   "--output_format", "txt", "--verbose", "True" >>

\* a vector built for "auto", without the flag
C17_Witness ==
  /\ wcmd.state = "returned"
  /\ wcmd.lang = "auto"
  /\ Len(wcmd.cmd) = 16
  /\ \A k \in 1..Len(wcmd.cmd) : wcmd.cmd[k] # "--language"

\* C18: when the worker thread and the UI thread call Logger.log side by
\* side, any two lines that are both in the log file and both enqueued for the
\* display come in the same order in the file as in the display.
C18_SameOrder ==
  LET f == logger.file
      d == Delivered(logger)
  IN  \A i, j \in 1..Len(f) : \A k, l \in 1..Len(d) :
        (f[i] = d[k] /\ f[j] = d[l] /\ i < j) => k < l

\* C19 as stated: the copy button is enabled only if the most recently
\* started run has ended in Succeeded and the reported output path is not
\* empty; while a run is under way the path is empty and the button disabled;
\* after a run that ended in Failed the path is empty and the button disabled.
C19_Original ==
  /\ btn_copy = "normal" => last_outcome = "Succeeded" /\ output_txt_var # <<>>
  /\ last_outcome = "running" => output_txt_var = <<>> /\ btn_copy = "disabled"
  /\ last_outcome = "Failed" => output_txt_var = <<>> /\ btn_copy = "disabled"

\* C19 as amended: the copy button is enabled only if the most recently
\* started run has reached Succeeded; the step in which a run reaches
\* Succeeded sets the reported path to a path that is not empty and names a
\* file, with the button still disabled, and the button is enabled only by
\* that run afterwards; accepting a start empties the path and disables the
\* button; the step that ends a run in Failed leaves the path as it was and
\* the button disabled.
C19_CopyEnabled ==
  /\ [](btn_copy = "normal" => last_outcome = "Succeeded")
  /\ [][(last_outcome # "Succeeded" /\ last_outcome' = "Succeeded")
          => /\ output_txt_var' # <<>>
             /\ output_txt_var' \in files'
             /\ btn_copy' = "disabled"]_vars
  /\ [][(btn_copy = "disabled" /\ btn_copy' = "normal")
          => \E i \in 1..Len(runs) :
               /\ runs[i].outcome = "Succeeded"
               /\ runs[i].txt_path # <<>>
               /\ runs[i].txt_path \in files]_vars
  /\ [][started' = started + 1
          => /\ last_outcome' = "running"
             /\ output_txt_var' = <<>>
             /\ btn_copy' = "disabled"]_vars
  /\ [][(last_outcome # "Failed" /\ last_outcome' = "Failed")
          => /\ output_txt_var' = output_txt_var
             /\ btn_copy' = "disabled"]_vars

\* the user has emptied the output field between the worker's setting it and
\* its enabling the button: the button was just enabled over an empty path
C19_Witness ==
  \E i \in 1..Len(runs) :
    /\ runs[i].pc = "Reporting"
    /\ last_outcome = "Succeeded"
    /\ btn_copy = "normal"
    /\ output_txt_var = <<>>

====
